---- MODULE Spec2Model ----
(***************************************************************************)
(* Model of the shader/pipeline-layout validation of wgpu-core:            *)
(*   wgpu-core/src/validation.rs     is_sub_type, get_aligned_type_size,   *)
(*                                   check_binding, check_stage            *)
(*   wgpu-core/src/binding_model.rs  BindGroup::validate_dynamic_bindings  *)
(* The functions are pure; every specification below draws the arguments   *)
(* of one call from bounded sets and its actions perform the call and      *)
(* record what it returned.                                                *)
(***************************************************************************)
EXTENDS Integers, Sequences, FiniteSets, TLC

VARIABLES
    pc,                    \* which call has been made so far
    dynamic_binding_info,  \* BindGroup.dynamic_binding_info: the maximum_dynamic_offset of each entry
    offsets,               \* the offsets argument of validate_dynamic_bindings
    bind_result,           \* what validate_dynamic_bindings returned
    sub,                   \* is_sub_type: the required type
    provided,              \* is_sub_type: the provided type
    sub_result,            \* what is_sub_type returned
    module,                \* the naga::Module under validation
    group_layouts,         \* check_stage: one BindEntryMap per bind group
    entry_point_name,      \* check_stage: the requested entry point name
    inputs,                \* check_stage: the interface offered to the first stage checked
    stage,                 \* the execution model of the last check_stage call
    stage_inputs,          \* the inputs argument of the last check_stage call
    stage_result,          \* what the last check_stage call returned
    vertex_result,         \* SpecChain: what check_stage returned for the vertex stage
    var,                   \* check_binding: the global variable
    entry,                 \* check_binding: the layout entry
    usage,                 \* check_binding: the usage of the global
    binding_result,        \* what check_binding returned
    size_call,             \* get_aligned_type_size: the handle and allow_unbound
    size_result            \* what get_aligned_type_size returned

vars == <<pc, dynamic_binding_info, offsets, bind_result, sub, provided, sub_result,
          module, group_layouts, entry_point_name, inputs, stage, stage_inputs,
          stage_result, vertex_result, var, entry, usage, binding_result,
          size_call, size_result>>

bindVars == <<dynamic_binding_info, offsets, bind_result>>
typeVars == <<sub, provided, sub_result>>
stageVars == <<module, group_layouts, entry_point_name, inputs, stage, stage_inputs,
               stage_result, vertex_result>>
bindingVars == <<var, entry, usage, binding_result>>
sizeVars == <<size_call, size_result>>

(***************************************************************************)
(* Helpers of the model.                                                   *)
(***************************************************************************)
None == [tag |-> "None"]
Ok == [tag |-> "Ok"]
Err(e) == [tag |-> "Err", error |-> e]
\* a panic!() or unreachable!() of the code: the call does not return
Panic == [tag |-> "Panic"]

SeqsUpTo(S, n) == UNION {[1..k -> S] : k \in 0..n}

\* Option<NonZeroU32> / Option<NonZeroU64> are laid out as an integer whose 0 is None
IsSome(x) == x # 0

Min(a, b) == IF a <= b THEN a ELSE b

(***************************************************************************)
(* binding_model.rs: BindGroup::validate_dynamic_bindings                  *)
(***************************************************************************)
\* wgt::BIND_BUFFER_ALIGNMENT (wgpu-types), used at binding_model.rs:167
BIND_BUFFER_ALIGNMENT == 256

\* validate_offsets_from with the overrun test made strict (>= for >)
RECURSIVE validate_offsets_from_strict(_, _, _)
validate_offsets_from_strict(info, offs, idx) ==
    IF idx >= Min(Len(info), Len(offs)) THEN Ok
    ELSE IF offs[idx + 1] % BIND_BUFFER_ALIGNMENT # 0
         THEN Err([kind |-> "UnalignedDynamicBinding", idx |-> idx])
    ELSE IF offs[idx + 1] >= info[idx + 1]
         THEN Err([kind |-> "DynamicBindingOutOfBounds", idx |-> idx])
    ELSE validate_offsets_from_strict(info, offs, idx + 1)

\* validate_offsets_from with the two tests of an offset in the other order
RECURSIVE validate_offsets_from_overrun_first(_, _, _)
validate_offsets_from_overrun_first(info, offs, idx) ==
    IF idx >= Min(Len(info), Len(offs)) THEN Ok
    ELSE IF offs[idx + 1] > info[idx + 1]
         THEN Err([kind |-> "DynamicBindingOutOfBounds", idx |-> idx])
    ELSE IF offs[idx + 1] % BIND_BUFFER_ALIGNMENT # 0
         THEN Err([kind |-> "UnalignedDynamicBinding", idx |-> idx])
    ELSE validate_offsets_from_overrun_first(info, offs, idx + 1)

\* the body of the for loop over dynamic_binding_info.iter().zip(offsets).enumerate(),
\* from the 0-based index idx on
RECURSIVE validate_offsets_from(_, _, _)
validate_offsets_from(info, offs, idx) ==
    IF idx >= Min(Len(info), Len(offs)) THEN Ok
    ELSE IF offs[idx + 1] % BIND_BUFFER_ALIGNMENT # 0
         THEN Err([kind |-> "UnalignedDynamicBinding", idx |-> idx])
    ELSE IF offs[idx + 1] > info[idx + 1]
         THEN Err([kind |-> "DynamicBindingOutOfBounds", idx |-> idx])
    ELSE validate_offsets_from(info, offs, idx + 1)

validate_dynamic_bindings(info, offs) ==
    IF Len(info) # Len(offs)
    THEN Err([kind |-> "MismatchedDynamicOffsetCount",
              expected |-> Len(info), actual |-> Len(offs)])
    ELSE validate_offsets_from(info, offs, 0)

(***************************************************************************)
(* naga::TypeInner, as validation.rs matches on it.  Types refer to each   *)
(* other by handle: a 1-based index into module.types.                     *)
(***************************************************************************)
Scalar(kind, width) == [tag |-> "Scalar", kind |-> kind, width |-> width]
Vector(size, kind, width) == [tag |-> "Vector", size |-> size, kind |-> kind, width |-> width]
Matrix(columns, rows, kind, width) ==
    [tag |-> "Matrix", columns |-> columns, rows |-> rows, kind |-> kind, width |-> width]
Pointer(base, class) == [tag |-> "Pointer", base |-> base, class |-> class]
\* naga::ArraySize
Static(count) == [tag |-> "Static", count |-> count]
Dynamic == [tag |-> "Dynamic"]
\* stride: Option<NonZeroU32>, 0 is None
Array(base, size, stride) == [tag |-> "Array", base |-> base, size |-> size, stride |-> stride]
StructMember(offset, ty) == [offset |-> offset, ty |-> ty]
Struct(members) == [tag |-> "Struct", members |-> members]
Sampler(comparison) == [tag |-> "Sampler", comparison |-> comparison]
Image(base, dim, flags) == [tag |-> "Image", base |-> base, dim |-> dim, flags |-> flags]

(***************************************************************************)
(* validation.rs: is_sub_type                                              *)
(***************************************************************************)
\* is_sub_type without its struct arm
is_sub_type_no_struct(s, p) ==
    CASE s.tag = "Scalar" /\ p.tag = "Scalar" -> s.kind = p.kind /\ s.width <= p.width
      [] s.tag = "Scalar" /\ p.tag = "Vector" -> s.kind = p.kind /\ s.width <= p.width
      [] s.tag = "Vector" /\ p.tag = "Vector" ->
            s.size <= p.size /\ s.kind = p.kind /\ s.width <= p.width
      [] s.tag = "Matrix" /\ p.tag = "Matrix" ->
            /\ s.columns = p.columns /\ s.rows = p.rows
            /\ s.kind = p.kind /\ s.width <= p.width
      [] OTHER -> FALSE

\* is_sub_type demanding equal widths
is_sub_type_equal_width(s, p) ==
    CASE s.tag = "Scalar" /\ p.tag = "Scalar" -> s.kind = p.kind /\ s.width = p.width
      [] s.tag = "Scalar" /\ p.tag = "Vector" -> s.kind = p.kind /\ s.width = p.width
      [] s.tag = "Vector" /\ p.tag = "Vector" ->
            s.size <= p.size /\ s.kind = p.kind /\ s.width = p.width
      [] s.tag = "Matrix" /\ p.tag = "Matrix" ->
            /\ s.columns = p.columns /\ s.rows = p.rows
            /\ s.kind = p.kind /\ s.width = p.width
      [] s.tag = "Struct" /\ p.tag = "Struct" -> s.members = p.members
      [] OTHER -> FALSE

is_sub_type(s, p) ==
    CASE s.tag = "Scalar" /\ p.tag = "Scalar" -> s.kind = p.kind /\ s.width <= p.width
      [] s.tag = "Scalar" /\ p.tag = "Vector" -> s.kind = p.kind /\ s.width <= p.width
      [] s.tag = "Vector" /\ p.tag = "Vector" ->
            s.size <= p.size /\ s.kind = p.kind /\ s.width <= p.width
      [] s.tag = "Matrix" /\ p.tag = "Matrix" ->
            /\ s.columns = p.columns /\ s.rows = p.rows
            /\ s.kind = p.kind /\ s.width <= p.width
      [] s.tag = "Struct" /\ p.tag = "Struct" -> s.members = p.members
      [] OTHER -> FALSE

(***************************************************************************)
(* validation.rs: get_aligned_type_size.  The result is a byte count, or   *)
(* PanicSize when the code reaches panic!("Unexpected struct field").      *)
(***************************************************************************)
PanicSize == -1

RECURSIVE get_aligned_type_size(_, _, _)
get_aligned_type_size(types, handle, allow_unbound) ==
    LET t == types[handle] IN
    CASE t.tag = "Scalar" -> t.width \div 8
      [] t.tag = "Vector" -> (t.size * t.width) \div 8
      [] t.tag = "Matrix" -> (t.rows * t.columns * t.width) \div 8
      [] t.tag = "Pointer" -> 4
      [] t.tag = "Array" /\ t.size.tag = "Static" ->
            LET base_size == IF IsSome(t.stride) THEN t.stride
                             ELSE get_aligned_type_size(types, t.base, FALSE)
            IN  IF base_size = PanicSize THEN PanicSize ELSE base_size * t.size.count
      [] t.tag = "Array" /\ t.size.tag = "Dynamic" /\ allow_unbound ->
            IF IsSome(t.stride) THEN t.stride
            ELSE get_aligned_type_size(types, t.base, FALSE)
      [] t.tag = "Struct" ->
            IF t.members = <<>> THEN 0
            ELSE LET member == t.members[Len(t.members)]
                     size == get_aligned_type_size(types, member.ty, FALSE)
                 IN  IF size = PanicSize THEN PanicSize ELSE member.offset + size
      [] OTHER -> PanicSize

(***************************************************************************)
(* wgt::BindingType, as validation.rs matches on it.  min_binding_size is  *)
(* an Option<NonZeroU64>: 0 is None.  A BindGroupLayoutEntry is            *)
(* [visibility, ty]; its key in the BindEntryMap is its binding index.     *)
(***************************************************************************)
UniformBuffer(dynamic, min_binding_size) ==
    [tag |-> "UniformBuffer", dynamic |-> dynamic, min_binding_size |-> min_binding_size]
StorageBuffer(dynamic, min_binding_size, readonly) ==
    [tag |-> "StorageBuffer", dynamic |-> dynamic, min_binding_size |-> min_binding_size,
     readonly |-> readonly]
SamplerBinding(comparison) == [tag |-> "Sampler", comparison |-> comparison]
SampledTexture(dimension, component_type, multisampled) ==
    [tag |-> "SampledTexture", dimension |-> dimension, component_type |-> component_type,
     multisampled |-> multisampled]
StorageTexture(dimension, readonly) ==
    [tag |-> "StorageTexture", dimension |-> dimension, readonly |-> readonly]
BindGroupLayoutEntry(visibility, ty) == [visibility |-> visibility, ty |-> ty]

\* naga::GlobalUse, a set of flags
LOAD == {"LOAD"}
STORE == {"STORE"}
GlobalUseAll == {"LOAD", "STORE"}
GlobalUse == SUBSET GlobalUseAll

BindingErr(kind) == Err([kind |-> kind])

(***************************************************************************)
(* validation.rs: check_binding                                            *)
(***************************************************************************)
\* lines 158-162: the type of the global, one pointer unwrapped
unwrap_pointer(types, ty) ==
    IF types[ty].tag = "Pointer" THEN types[types[ty].base] ELSE types[ty]

\* lines 184-187: actual_size, the sum over the members; PanicSize if a member panics
RECURSIVE actual_size_from(_, _, _)
actual_size_from(types, members, i) ==
    IF i > Len(members) THEN 0
    ELSE LET size == get_aligned_type_size(types, members[i].ty, i = Len(members))
             rest == actual_size_from(types, members, i + 1)
         IN  IF size = PanicSize \/ rest = PanicSize THEN PanicSize ELSE size + rest

\* lines 164-195: the Struct arm; the allowed usage or an early return
check_binding_struct(types, ty_inner, e) ==
    IF e.ty.tag \notin {"UniformBuffer", "StorageBuffer"} THEN BindingErr("WrongType")
    ELSE LET allowed_usage ==
                 IF e.ty.tag = "UniformBuffer" THEN LOAD
                 ELSE IF e.ty.readonly THEN LOAD ELSE GlobalUseAll
             min_size == e.ty.min_binding_size
             actual_size == actual_size_from(types, ty_inner.members, 1)
         IN  IF actual_size = PanicSize THEN Panic
             ELSE IF IsSome(min_size) /\ min_size < actual_size
                  THEN Err([kind |-> "WrongBufferSize", size |-> actual_size])
             ELSE [tag |-> "Allowed", allowed_usage |-> allowed_usage]

\* the Sampler arm without its comparison test
check_binding_sampler_any_comparison(ty_inner, e) ==
    IF e.ty.tag # "Sampler" THEN BindingErr("WrongType")
    ELSE [tag |-> "Allowed", allowed_usage |-> {}]

\* lines 196-205: the Sampler arm; GlobalUse::empty() is the allowed usage
check_binding_sampler(ty_inner, e) ==
    IF e.ty.tag # "Sampler" THEN BindingErr("WrongType")
    ELSE IF e.ty.comparison = ty_inner.comparison
         THEN [tag |-> "Allowed", allowed_usage |-> {}]
    ELSE BindingErr("WrongSamplerComparison")

WrongTextureViewDimension(dim, is_array) ==
    Err([kind |-> "WrongTextureViewDimension", dim |-> dim, is_array |-> is_array])

\* lines 252-256
expected_scalar_kind(component_type) ==
    CASE component_type = "Float" -> "Float"
      [] component_type = "Sint" -> "Sint"
      [] component_type = "Uint" -> "Uint"

\* the Image arm, a storage texture that is not read-only allowing reads as well
check_binding_image_storage_read_write(types, ty_inner, e) ==
    LET dim == ty_inner.dim
        flags == ty_inner.flags
        base == types[ty_inner.base]
    IN
    IF "MULTISAMPLED" \in flags /\ ~(e.ty.tag = "SampledTexture" /\ e.ty.multisampled)
    THEN BindingErr("WrongTextureMultisampled")
    ELSE IF e.ty.tag \notin {"SampledTexture", "StorageTexture"}
    THEN WrongTextureViewDimension(dim, TRUE)
    ELSE IF "ARRAYED" \in flags
            /\ <<dim, e.ty.dimension>> \notin {<<"Dim2D", "D2Array">>, <<"DimCube", "CubeArray">>}
    THEN WrongTextureViewDimension(dim, TRUE)
    ELSE IF "ARRAYED" \notin flags
            /\ <<dim, e.ty.dimension>> \notin {<<"Dim1D", "D1">>, <<"Dim2D", "D2">>,
                                               <<"Dim3D", "D3">>, <<"DimCube", "Cube">>}
    THEN WrongTextureViewDimension(dim, FALSE)
    ELSE IF e.ty.tag = "SampledTexture"
            /\ base.tag \in {"Scalar", "Vector"}
            /\ base.kind # expected_scalar_kind(e.ty.component_type)
    THEN Err([kind |-> "WrongTextureComponentType", scalar_kind |-> base.kind])
    ELSE IF e.ty.tag = "SampledTexture" /\ base.tag \notin {"Scalar", "Vector"}
    THEN Err([kind |-> "WrongTextureComponentType", scalar_kind |-> "None"])
    ELSE LET is_sampled == e.ty.tag = "SampledTexture"
             allowed_usage == IF e.ty.tag = "SampledTexture" THEN LOAD
                              ELSE IF e.ty.readonly THEN LOAD ELSE GlobalUseAll
         IN  IF is_sampled # ("SAMPLED" \in flags) THEN BindingErr("WrongTextureSampled")
             ELSE [tag |-> "Allowed", allowed_usage |-> allowed_usage]
\* the Image arm, every image matched as one that is not arrayed
check_binding_image_arrayed_ignored(types, ty_inner, e) ==
    LET dim == ty_inner.dim
        flags == ty_inner.flags
        base == types[ty_inner.base]
    IN
    IF "MULTISAMPLED" \in flags /\ ~(e.ty.tag = "SampledTexture" /\ e.ty.multisampled)
    THEN BindingErr("WrongTextureMultisampled")
    ELSE IF e.ty.tag \notin {"SampledTexture", "StorageTexture"}
    THEN WrongTextureViewDimension(dim, TRUE)
    ELSE IF FALSE
            /\ <<dim, e.ty.dimension>> \notin {<<"Dim2D", "D2Array">>, <<"DimCube", "CubeArray">>}
    THEN WrongTextureViewDimension(dim, TRUE)
    ELSE IF TRUE
            /\ <<dim, e.ty.dimension>> \notin {<<"Dim1D", "D1">>, <<"Dim2D", "D2">>,
                                               <<"Dim3D", "D3">>, <<"DimCube", "Cube">>}
    THEN WrongTextureViewDimension(dim, FALSE)
    ELSE IF e.ty.tag = "SampledTexture"
            /\ base.tag \in {"Scalar", "Vector"}
            /\ base.kind # expected_scalar_kind(e.ty.component_type)
    THEN Err([kind |-> "WrongTextureComponentType", scalar_kind |-> base.kind])
    ELSE IF e.ty.tag = "SampledTexture" /\ base.tag \notin {"Scalar", "Vector"}
    THEN Err([kind |-> "WrongTextureComponentType", scalar_kind |-> "None"])
    ELSE LET is_sampled == e.ty.tag = "SampledTexture"
             allowed_usage == IF e.ty.tag = "SampledTexture" THEN LOAD
                              ELSE IF e.ty.readonly THEN LOAD ELSE STORE
         IN  IF is_sampled # ("SAMPLED" \in flags) THEN BindingErr("WrongTextureSampled")
             ELSE [tag |-> "Allowed", allowed_usage |-> allowed_usage]
\* lines 206-283: the Image arm
check_binding_image(types, ty_inner, e) ==
    LET dim == ty_inner.dim
        flags == ty_inner.flags
        base == types[ty_inner.base]
    IN
    IF "MULTISAMPLED" \in flags /\ ~(e.ty.tag = "SampledTexture" /\ e.ty.multisampled)
    THEN BindingErr("WrongTextureMultisampled")
    ELSE IF e.ty.tag \notin {"SampledTexture", "StorageTexture"}
    THEN WrongTextureViewDimension(dim, TRUE)
    ELSE IF "ARRAYED" \in flags
            /\ <<dim, e.ty.dimension>> \notin {<<"Dim2D", "D2Array">>, <<"DimCube", "CubeArray">>}
    THEN WrongTextureViewDimension(dim, TRUE)
    ELSE IF "ARRAYED" \notin flags
            /\ <<dim, e.ty.dimension>> \notin {<<"Dim1D", "D1">>, <<"Dim2D", "D2">>,
                                               <<"Dim3D", "D3">>, <<"DimCube", "Cube">>}
    THEN WrongTextureViewDimension(dim, FALSE)
    ELSE IF e.ty.tag = "SampledTexture"
            /\ base.tag \in {"Scalar", "Vector"}
            /\ base.kind # expected_scalar_kind(e.ty.component_type)
    THEN Err([kind |-> "WrongTextureComponentType", scalar_kind |-> base.kind])
    ELSE IF e.ty.tag = "SampledTexture" /\ base.tag \notin {"Scalar", "Vector"}
    THEN Err([kind |-> "WrongTextureComponentType", scalar_kind |-> "None"])
    ELSE LET is_sampled == e.ty.tag = "SampledTexture"
             allowed_usage == IF e.ty.tag = "SampledTexture" THEN LOAD
                              ELSE IF e.ty.readonly THEN LOAD ELSE STORE
         IN  IF is_sampled # ("SAMPLED" \in flags) THEN BindingErr("WrongTextureSampled")
             ELSE [tag |-> "Allowed", allowed_usage |-> allowed_usage]

check_binding(m, v, e, u) ==
    LET ty_inner == unwrap_pointer(m.types, v.ty)
        arm == CASE ty_inner.tag = "Struct" -> check_binding_struct(m.types, ty_inner, e)
                 [] ty_inner.tag = "Sampler" -> check_binding_sampler(ty_inner, e)
                 [] ty_inner.tag = "Image" -> check_binding_image(m.types, ty_inner, e)
                 [] OTHER -> BindingErr("WrongType")
    IN  IF arm.tag # "Allowed" THEN arm
        ELSE IF u \subseteq arm.allowed_usage THEN Ok
        ELSE Err([kind |-> "WrongUsage", usage |-> u])

(***************************************************************************)
(* naga::Module as check_stage reads it:                                   *)
(*   types             the arena of TypeInner                              *)
(*   global_variables  [ty, binding]; binding is None, Descriptor,         *)
(*                     Location or BuiltIn                                 *)
(*   functions         [global_usage], one GlobalUse per global variable   *)
(*   entry_points      [name, exec_model, function]                        *)
(***************************************************************************)
Descriptor(set, binding) == [tag |-> "Descriptor", set |-> set, binding |-> binding]
Location(location) == [tag |-> "Location", location |-> location]
BuiltIn == [tag |-> "BuiltIn"]
GlobalVariable(ty, binding) == [ty |-> ty, binding |-> binding]
EntryPoint(name, exec_model, function) ==
    [name |-> name, exec_model |-> exec_model, function |-> function]

\* StageInterface: a map from location to TypeInner
EmptyInterface == [l \in {} |-> None]
\* an insert that keeps the value a key already has
insert_keep_first(map, key, value) ==
    [k \in DOMAIN map \cup {key} |-> IF k \in DOMAIN map THEN map[k] ELSE value]
\* FastHashMap::insert: the value replaces the one the key had
insert(map, key, value) == [k \in DOMAIN map \cup {key} |-> IF k = key THEN value ELSE map[k]]

(***************************************************************************)
(* validation.rs: check_stage                                              *)
(***************************************************************************)
\* find_entry_point matching the name alone
find_entry_point_by_name(m, name, execution_model) ==
    LET matching == {i \in 1..Len(m.entry_points) : m.entry_points[i].name = name}
    IN  IF matching = {} THEN 0
        ELSE CHOOSE i \in matching : \A j \in matching : i <= j

\* lines 666-672: the index of the first entry point of that name and model, 0 if none
find_entry_point(m, name, execution_model) ==
    LET matching == {i \in 1..Len(m.entry_points) :
                        /\ m.entry_points[i].name = name
                        /\ m.entry_points[i].exec_model = execution_model}
    IN  IF matching = {} THEN 0
        ELSE CHOOSE i \in matching : \A j \in matching : i <= j

\* lines 673-679
stage_bit(execution_model) ==
    CASE execution_model = "Vertex" -> "VERTEX"
      [] execution_model = "Fragment" -> "FRAGMENT"
      [] execution_model = "GLCompute" -> "COMPUTE"

\* check_descriptor testing the visibility after the binding, not before
check_descriptor_binding_first(m, layouts, bit, v, u) ==
    LET set == v.binding.set
        binding == v.binding.binding
    IN  IF ~(set < Len(layouts) /\ binding \in DOMAIN layouts[set + 1])
        THEN BindingErr("Missing")
        ELSE LET result == check_binding(m, v, layouts[set + 1][binding], u)
             IN  IF result # Ok THEN result
                 ELSE IF bit \notin layouts[set + 1][binding].visibility
                 THEN BindingErr("Invisible")
                 ELSE Ok

\* check_descriptor looking the binding up in the first bind group, whatever the set
check_descriptor_first_group(m, layouts, bit, v, u) ==
    LET binding == v.binding.binding
    IN  IF ~(0 < Len(layouts) /\ binding \in DOMAIN layouts[1])
        THEN BindingErr("Missing")
        ELSE IF bit \notin layouts[1][binding].visibility
        THEN BindingErr("Invisible")
        ELSE check_binding(m, v, layouts[1][binding], u)

\* lines 689-700: the layout entry of a descriptor binding, checked against the global
check_descriptor(m, layouts, bit, v, u) ==
    LET set == v.binding.set
        binding == v.binding.binding
    IN  IF ~(set < Len(layouts) /\ binding \in DOMAIN layouts[set + 1])
        THEN BindingErr("Missing")
        ELSE IF bit \notin layouts[set + 1][binding].visibility
        THEN BindingErr("Invisible")
        ELSE check_binding(m, v, layouts[set + 1][binding], u)

\* check_input with the arguments of is_sub_type exchanged
check_input_exchanged(ty, ins, location) ==
    IF location \notin DOMAIN ins THEN Err([kind |-> "Missing"])
    ELSE IF is_sub_type(ins[location], ty) THEN Ok
    ELSE Err([kind |-> "WrongType"])

\* lines 718-728: a varying that is only read, checked against the previous stage
check_input(ty, ins, location) ==
    IF location \notin DOMAIN ins THEN Err([kind |-> "Missing"])
    ELSE IF is_sub_type(ty, ins[location]) THEN Ok
    ELSE Err([kind |-> "WrongType"])

\* check_global taking the type of a varying as declared, its pointer not unwrapped
check_global_pointer_kept(m, layouts, bit, ins, v, u, outputs) ==
    IF u = {} THEN [tag |-> "Ok", outputs |-> outputs]
    ELSE CASE v.binding.tag = "Descriptor" ->
                LET result == check_descriptor(m, layouts, bit, v, u)
                IN  IF result.tag = "Panic" THEN Panic
                    ELSE IF result.tag = "Err"
                    THEN Err([kind |-> "Binding", set |-> v.binding.set,
                              binding |-> v.binding.binding, error |-> result.error])
                    ELSE [tag |-> "Ok", outputs |-> outputs]
           [] v.binding.tag = "Location" ->
                LET ty == m.types[v.ty]
                    location == v.binding.location
                IN  IF "STORE" \in u
                    THEN [tag |-> "Ok", outputs |-> insert(outputs, location, ty)]
                    ELSE LET result == check_input(ty, ins, location)
                         IN  IF result.tag = "Err"
                             THEN Err([kind |-> "Input", location |-> location,
                                       error |-> result.error])
                             ELSE [tag |-> "Ok", outputs |-> outputs]
           [] OTHER -> [tag |-> "Ok", outputs |-> outputs]

\* lines 684-735: the body of the loop for the global variable of index i.
\* Ok carries the outputs after this global, Err the StageError returned.
check_global(m, layouts, bit, ins, v, u, outputs) ==
    IF u = {} THEN [tag |-> "Ok", outputs |-> outputs]
    ELSE CASE v.binding.tag = "Descriptor" ->
                LET result == check_descriptor(m, layouts, bit, v, u)
                IN  IF result.tag = "Panic" THEN Panic
                    ELSE IF result.tag = "Err"
                    THEN Err([kind |-> "Binding", set |-> v.binding.set,
                              binding |-> v.binding.binding, error |-> result.error])
                    ELSE [tag |-> "Ok", outputs |-> outputs]
           [] v.binding.tag = "Location" ->
                LET ty == unwrap_pointer(m.types, v.ty)
                    location == v.binding.location
                IN  IF "STORE" \in u
                    THEN [tag |-> "Ok", outputs |-> insert(outputs, location, ty)]
                    ELSE LET result == check_input(ty, ins, location)
                         IN  IF result.tag = "Err"
                             THEN Err([kind |-> "Input", location |-> location,
                                       error |-> result.error])
                             ELSE [tag |-> "Ok", outputs |-> outputs]
           [] OTHER -> [tag |-> "Ok", outputs |-> outputs]

\* the loop of check_stage examining the globals after i before the global i
RECURSIVE check_globals_from_rest_first(_, _, _, _, _, _, _)
check_globals_from_rest_first(m, layouts, bit, ins, global_usage, i, outputs) ==
    IF i > Min(Len(m.global_variables), Len(global_usage))
    THEN [tag |-> "Ok", outputs |-> outputs]
    ELSE LET rest == check_globals_from_rest_first(m, layouts, bit, ins, global_usage,
                                                   i + 1, outputs)
         IN  IF rest.tag # "Ok" THEN rest
             ELSE check_global(m, layouts, bit, ins, m.global_variables[i],
                               global_usage[i], rest.outputs)

\* lines 683-737: the loop over module.global_variables.iter().zip(&function.global_usage)
RECURSIVE check_globals_from(_, _, _, _, _, _, _)
check_globals_from(m, layouts, bit, ins, global_usage, i, outputs) ==
    IF i > Min(Len(m.global_variables), Len(global_usage))
    THEN [tag |-> "Ok", outputs |-> outputs]
    ELSE LET result == check_global(m, layouts, bit, ins, m.global_variables[i],
                                    global_usage[i], outputs)
         IN  IF result.tag # "Ok" THEN result
             ELSE check_globals_from(m, layouts, bit, ins, global_usage, i + 1,
                                     result.outputs)

check_stage(m, layouts, name, execution_model, ins) ==
    LET ep == find_entry_point(m, name, execution_model)
    IN  IF ep = 0 THEN Err([kind |-> "MissingEntryPoint", model |-> execution_model])
        ELSE IF execution_model \notin {"Vertex", "Fragment", "GLCompute"} THEN Panic
        ELSE check_globals_from(m, layouts, stage_bit(execution_model), ins,
                                m.functions[m.entry_points[ep].function].global_usage,
                                1, EmptyInterface)

(***************************************************************************)
(* Values of the variables a specification does not use.                   *)
(***************************************************************************)
EmptyModule == [types |-> <<>>, global_variables |-> <<>>, functions |-> <<>>,
                entry_points |-> <<>>]
NoBindCall == dynamic_binding_info = <<>> /\ offsets = <<>> /\ bind_result = None
NoTypeCall == sub = None /\ provided = None /\ sub_result = None
NoStageCall ==
    /\ group_layouts = <<>> /\ entry_point_name = "" /\ inputs = EmptyInterface
    /\ stage = "" /\ stage_inputs = EmptyInterface
    /\ stage_result = None /\ vertex_result = None
NoBindingCall == var = None /\ entry = None /\ usage = {} /\ binding_result = None
NoSizeCall == size_call = None /\ size_result = None

(***************************************************************************)
(* SpecBind: a bind group is built with its dynamic_binding_info, then     *)
(* every draw validates the dynamic offsets it is given.                   *)
(***************************************************************************)
\* the longest dynamic_binding_info and offsets array
MaxDynamic == 2
\* the maximum_dynamic_offset values and the offsets drawn
MaximumOffsets == {0, 256, 300, 512}
DynamicOffsets == {0, 1, 256, 257, 512, 768}

InitBind ==
    /\ pc = "built"
    /\ dynamic_binding_info \in SeqsUpTo(MaximumOffsets, MaxDynamic)
    /\ offsets = <<>> /\ bind_result = None
    /\ NoSizeCall /\ NoTypeCall /\ module = EmptyModule /\ NoStageCall /\ NoBindingCall

ValidateDynamicBindings ==
    /\ pc \in {"built", "validated"}
    /\ \E offs \in SeqsUpTo(DynamicOffsets, MaxDynamic) :
          /\ offsets' = offs
          /\ bind_result' = validate_dynamic_bindings(dynamic_binding_info, offs)
    /\ pc' = "validated"
    /\ UNCHANGED <<dynamic_binding_info, typeVars, sizeVars, stageVars, bindingVars>>

NextBind == ValidateDynamicBindings

SpecBind == InitBind /\ [][NextBind]_vars

(***************************************************************************)
(* The vocabulary of the claims about validate_dynamic_bindings.           *)
(***************************************************************************)
\* the 0-based indices of the offsets that are misaligned, and of those past the maximum
Unaligned == {i \in 0..(Len(offsets) - 1) : offsets[i + 1] % BIND_BUFFER_ALIGNMENT # 0}
Overrun == {i \in 0..(Min(Len(offsets), Len(dynamic_binding_info)) - 1) :
               offsets[i + 1] > dynamic_binding_info[i + 1]}
Least(S) == CHOOSE i \in S : \A j \in S : i <= j

\* C1: validate_dynamic_bindings returns Ok if and only if there are as many offsets
\* as recorded bounds and every offset is a multiple of BIND_BUFFER_ALIGNMENT and is
\* at most the maximum_dynamic_offset of its index (equal is accepted).
C1_OkIffAllValid ==
    pc = "validated" =>
        (bind_result = Ok <=>
            /\ Len(offsets) = Len(dynamic_binding_info)
            /\ \A i \in 1..Len(offsets) :
                  /\ offsets[i] % BIND_BUFFER_ALIGNMENT = 0
                  /\ offsets[i] <= dynamic_binding_info[i])

\* bounds [256, 512], offsets [0, 256] succeed; so does an offset equal to its maximum
C1_Witness ==
    /\ pc = "validated" /\ bind_result = Ok
    /\ dynamic_binding_info = <<256, 512>>
    /\ offsets \in {<<0, 256>>, <<256, 512>>}

\* C2: a failure is a count mismatch carrying both counts whenever the counts differ,
\* whatever the offsets; otherwise it carries the smallest invalid index, as unaligned
\* if the offset there is misaligned and as out of bounds if not.
C2_ErrorPrecedence ==
    pc = "validated" =>
        IF Len(offsets) # Len(dynamic_binding_info)
        THEN bind_result = Err([kind |-> "MismatchedDynamicOffsetCount",
                                expected |-> Len(dynamic_binding_info),
                                actual |-> Len(offsets)])
        ELSE Unaligned \cup Overrun # {} =>
                LET i == Least(Unaligned \cup Overrun)
                IN  bind_result =
                        IF i \in Unaligned
                        THEN Err([kind |-> "UnalignedDynamicBinding", idx |-> i])
                        ELSE Err([kind |-> "DynamicBindingOutOfBounds", idx |-> i])

\* an offset that is both misaligned and past its maximum is reported as unaligned
C2_Witness ==
    /\ pc = "validated"
    /\ dynamic_binding_info = <<256, 512>>
    /\ offsets = <<257, 768>>
    /\ bind_result = Err([kind |-> "UnalignedDynamicBinding", idx |-> 0])

(***************************************************************************)
(* SpecType: is_sub_type is called on a required and a provided type.      *)
(***************************************************************************)
\* the largest handle a pointer, array, image or struct member refers to
MaxHandle == 2
\* the most members of a struct
MaxMembers == 2
ScalarKinds == {"Sint", "Uint", "Float"}
Widths == {16, 32}
VectorSizes == {2, 3, 4}
MemberOffsets == {0, 16}
Dims == {"Dim1D", "Dim2D", "Dim3D", "DimCube", "DimRect"}
ImageFlags == {"ARRAYED", "MULTISAMPLED", "SAMPLED"}

Scalars == {Scalar(k, w) : k \in ScalarKinds, w \in Widths}
Vectors == {Vector(n, k, w) : n \in VectorSizes, k \in ScalarKinds, w \in Widths}
Matrices == {Matrix(c, r, k, w) : c \in VectorSizes, r \in VectorSizes,
                                  k \in ScalarKinds, w \in Widths}
Pointers == {Pointer(b, c) : b \in 1..MaxHandle, c \in {"Input", "Uniform"}}
Arrays == {Array(b, n, st) : b \in 1..MaxHandle, n \in {Static(2), Dynamic}, st \in {0, 16}}
Structs == {Struct(ms) : ms \in SeqsUpTo({StructMember(o, t) : o \in MemberOffsets,
                                                              t \in 1..MaxHandle},
                                         MaxMembers)}
Samplers == {Sampler(c) : c \in BOOLEAN}
Images == {Image(b, d, f) : b \in 1..MaxHandle, d \in {"Dim2D", "DimCube"},
                            f \in SUBSET ImageFlags}
TypeInners ==
    Scalars \cup Vectors \cup Matrices \cup Pointers \cup Arrays \cup Structs
        \cup Samplers \cup Images

InitType ==
    /\ pc = "init"
    /\ sub \in TypeInners /\ provided \in TypeInners /\ sub_result = None
    /\ NoSizeCall /\ NoBindCall /\ module = EmptyModule /\ NoStageCall /\ NoBindingCall

IsSubType ==
    /\ pc = "init"
    /\ sub_result' = is_sub_type(sub, provided)
    /\ pc' = "compared"
    /\ UNCHANGED <<sub, provided, bindVars, sizeVars, stageVars, bindingVars>>

NextType == IsSubType

SpecType == InitType /\ [][NextType]_vars

\* C8 as claimed: is_sub_type(T, T) is true for every type T, pointers, arrays,
\* samplers and images included.
C8_ReflexiveForEveryType ==
    (pc = "compared" /\ sub = provided) => sub_result = TRUE

\* C8 as amended: is_sub_type(T, T) is true for every scalar, vector, matrix and
\* struct T, and false for every pointer, array, sampler and image T.
C8_ReflexiveOnMatchedVariants ==
    (pc = "compared" /\ sub = provided) =>
        (sub_result <=> sub.tag \in {"Scalar", "Vector", "Matrix", "Struct"})

C8_Witness ==
    /\ pc = "compared" /\ sub = provided
    /\ sub.tag = "Struct" /\ Len(sub.members) = 2
    /\ sub_result = TRUE

\* C9: for two scalars of equal kind, or two vectors of equal kind and size,
\* is_sub_type is true if and only if the required width is at most the provided
\* one; and scalars and vectors of different kinds never match.
C9_WidthMonotone ==
    pc = "compared" =>
        /\ (/\ sub.tag = provided.tag
            /\ sub.tag \in {"Scalar", "Vector"}
            /\ sub.kind = provided.kind
            /\ sub.tag = "Vector" => sub.size = provided.size)
           => (sub_result <=> sub.width <= provided.width)
        /\ (/\ sub.tag \in {"Scalar", "Vector"}
            /\ provided.tag \in {"Scalar", "Vector"}
            /\ sub.kind # provided.kind)
           => sub_result = FALSE

\* required 16-bit float against provided 32-bit float
C9_Witness ==
    /\ pc = "compared"
    /\ sub = Vector(2, "Float", 16) /\ provided = Vector(2, "Float", 32)
    /\ sub_result = TRUE

(***************************************************************************)
(* The module.types arena of the modules drawn below.  Handle 1 is the     *)
(* struct of the buffer binding, with the members given.                   *)
(***************************************************************************)
Arena(members) == <<
    Struct(members),                                   \*  1
    Pointer(1, "Uniform"),                             \*  2
    Vector(4, "Float", 32),                            \*  3  16 bytes
    Vector(3, "Float", 32),                            \*  4  12 bytes
    Array(3, Static(2), 0),                            \*  5  32 bytes
    Array(4, Static(2), 16),                           \*  6  32 bytes, by its stride
    Array(3, Dynamic, 0),                              \*  7  one element: 16 bytes
    Array(4, Dynamic, 16),                             \*  8  one element: its stride
    Struct(<<StructMember(0, 4), StructMember(16, 4)>>), \*  9  28 bytes
    Sampler(FALSE),                                    \* 10
    Sampler(TRUE),                                     \* 11
    Vector(2, "Float", 32),                            \* 12
    Pointer(3, "Output"),                              \* 13
    Vector(4, "Sint", 32),                             \* 14
    Scalar("Float", 32),                               \* 15
    Matrix(4, 4, "Float", 32),                         \* 16  64 bytes
    Image(15, "Dim2D", {"SAMPLED"}),                   \* 17
    Image(15, "Dim2D", {})                             \* 18
>>

AllStages == {"VERTEX", "FRAGMENT", "COMPUTE"}

(***************************************************************************)
(* SpecBuffer: check_binding is called for a global whose type is the      *)
(* struct of handle 1, or a pointer to it.                                 *)
(***************************************************************************)
BufferMemberTypes == {3, 4, 5, 7, 8, 9}
BufferMemberOffsets == {0, 16, 32}
MinBindingSizes == {0, 16, 24, 32, 48}
\* the members of a struct lie one after the other
BufferMembers ==
    {ms \in SeqsUpTo({StructMember(o, t) : o \in BufferMemberOffsets,
                                           t \in BufferMemberTypes},
                     MaxMembers) :
        \A i \in 1..(Len(ms) - 1) : ms[i].offset < ms[i + 1].offset}
BufferEntryTypes ==
    {UniformBuffer(d, n) : d \in BOOLEAN, n \in MinBindingSizes}
        \cup {StorageBuffer(FALSE, n, r) : n \in MinBindingSizes, r \in BOOLEAN}
        \cup {SamplerBinding(FALSE), SampledTexture("D2", "Float", FALSE)}

InitBuffer ==
    /\ pc = "init"
    /\ \E ms \in BufferMembers :
          module = [types |-> Arena(ms), global_variables |-> <<>>, functions |-> <<>>,
                    entry_points |-> <<>>]
    /\ var \in {GlobalVariable(ty, Descriptor(0, 0)) : ty \in {1, 2}}
    /\ entry \in {BindGroupLayoutEntry(AllStages, ty) : ty \in BufferEntryTypes}
    /\ usage \in GlobalUse
    /\ binding_result = None
    /\ NoSizeCall /\ NoBindCall /\ NoTypeCall /\ NoStageCall

CheckBinding ==
    /\ pc = "init"
    /\ binding_result' = check_binding(module, var, entry, usage)
    /\ pc' = "checked"
    /\ UNCHANGED <<var, entry, usage, module, group_layouts, entry_point_name, inputs,
                   stage, stage_inputs, stage_result, vertex_result, bindVars, typeVars,
                   sizeVars>>

NextBuffer == CheckBinding

SpecBuffer == InitBuffer /\ [][NextBuffer]_vars

(***************************************************************************)
(* The vocabulary of the claims about check_binding of a struct.           *)
(***************************************************************************)
\* the members of the struct the global is bound as
BoundMembers == unwrap_pointer(module.types, var.ty).members
\* the size section 4.2 gives the struct, the last member measured with an unbounded
\* array allowed: the last member's offset plus that member's size
StructAlignedSize ==
    IF BoundMembers = <<>> THEN 0
    ELSE BoundMembers[Len(BoundMembers)].offset
            + get_aligned_type_size(module.types, BoundMembers[Len(BoundMembers)].ty, TRUE)
IsBufferEntry == entry.ty.tag \in {"UniformBuffer", "StorageBuffer"}

\* C10: against a uniform or storage buffer entry, check_binding of a struct fails
\* with WrongBufferSize(S) exactly when the entry has a min_binding_size smaller than
\* S, where S is the last member's offset plus that member's aligned size.
C10_WrongBufferSizeIffTooSmall ==
    (pc = "checked" /\ IsBufferEntry /\ binding_result # Panic) =>
        (binding_result = Err([kind |-> "WrongBufferSize", size |-> StructAlignedSize])
            <=> (IsSome(entry.ty.min_binding_size)
                    /\ entry.ty.min_binding_size < StructAlignedSize))

(***************************************************************************)
(* The check_stage specifications.  A module is drawn as a table of        *)
(* (global variable, usage by the function) cases; pipeline creation then  *)
(* calls check_stage for a stage.                                          *)
(***************************************************************************)
\* the most global variables of a module
MaxGlobals == 2
\* the struct of handle 1 in these modules: 32 bytes
StageMembers == <<StructMember(0, 3), StructMember(16, 3)>>
GlobalCase(v, u) == [var |-> v, usage |-> u]
\* a module whose functions use the globals as the usage tables say
StageModule(globals, usages, eps) ==
    [types |-> Arena(StageMembers),
     global_variables |-> globals,
     functions |-> [f \in 1..Len(usages) |-> [global_usage |-> usages[f]]],
     entry_points |-> eps]
CaseModule(cases, eps) ==
    StageModule([i \in 1..Len(cases) |-> cases[i].var],
                <<[i \in 1..Len(cases) |-> cases[i].usage]>>, eps)
\* one function, the entry point "main" of every stage
EveryStage == <<EntryPoint("main", "Vertex", 1), EntryPoint("main", "Fragment", 1),
                EntryPoint("main", "GLCompute", 1)>>

\* a call of check_stage for the execution model given, on the inputs drawn
CheckStage ==
    /\ pc = "init"
    /\ \E execution_model \in {"Vertex", "Fragment", "GLCompute"} :
          /\ stage' = execution_model
          /\ stage_result' = check_stage(module, group_layouts, entry_point_name,
                                         execution_model, inputs)
    /\ stage_inputs' = inputs
    /\ pc' = "checked"
    /\ UNCHANGED <<module, group_layouts, entry_point_name, inputs, vertex_result,
                   bindVars, typeVars, sizeVars, bindingVars>>

NextStage == CheckStage

(***************************************************************************)
(* The vocabulary of the claims about check_stage, over the arguments and  *)
(* the result of the last call.                                            *)
(***************************************************************************)
\* the function check_stage validates: the one of the first entry point of the
\* requested name whose execution model is the requested one
Requested(i) ==
    /\ module.entry_points[i].name = entry_point_name
    /\ module.entry_points[i].exec_model = stage
HasRequested == \E i \in 1..Len(module.entry_points) : Requested(i)
FirstRequested ==
    CHOOSE i \in 1..Len(module.entry_points) :
        Requested(i) /\ \A j \in 1..(i - 1) : ~Requested(j)
\* how that function uses the global of index i
Usage(i) == module.functions[module.entry_points[FirstRequested].function].global_usage[i]
Globals == 1..Len(module.global_variables)
Global(i) == module.global_variables[i]
IsUsed(i) == Usage(i) # {}
\* the stage under validation, as a visibility bit
StageBit ==
    IF stage = "Vertex" THEN "VERTEX" ELSE IF stage = "Fragment" THEN "FRAGMENT" ELSE "COMPUTE"
\* the global of index i passes the body of the loop of check_stage
Passes(i) ==
    check_global(module, group_layouts, StageBit, stage_inputs, Global(i), Usage(i),
                 EmptyInterface).tag = "Ok"
\* check_stage reaches the global of index i: it has the entry point and every
\* global before i passes
Reaches(i) == HasRequested /\ \A j \in 1..(i - 1) : Passes(j)

(***************************************************************************)
(* SpecDescriptor: modules whose globals are mostly bound to descriptors,  *)
(* against layouts of none or one bind group.                              *)
(***************************************************************************)
DescriptorGlobals ==
    {GlobalVariable(2, Descriptor(0, 0)), GlobalVariable(2, Descriptor(0, 1)),
     GlobalVariable(2, Descriptor(1, 0)), GlobalVariable(10, Descriptor(0, 0)),
     GlobalVariable(12, Descriptor(0, 0)), GlobalVariable(13, Location(0))}
DescriptorCases == {GlobalCase(v, u) : v \in DescriptorGlobals, u \in GlobalUse}
LayoutEntryTypes == {UniformBuffer(FALSE, 0), UniformBuffer(FALSE, 48), SamplerBinding(FALSE)}
Visibilities == {{"VERTEX"}, {"FRAGMENT"}, {"VERTEX", "FRAGMENT"}, {"COMPUTE"}}
\* no bind group; one without entries; one with an entry at binding 0
Layouts ==
    {<<>>, <<[b \in {} |-> None]>>}
        \cup {<<[b \in {0} |-> BindGroupLayoutEntry(vis, ty)]>> :
                 vis \in Visibilities, ty \in LayoutEntryTypes}

InitDescriptor ==
    /\ pc = "init"
    /\ \E cases \in SeqsUpTo(DescriptorCases, MaxGlobals) :
          module = CaseModule(cases, EveryStage)
    /\ group_layouts \in Layouts
    /\ entry_point_name = "main"
    /\ inputs = EmptyInterface
    /\ stage = "" /\ stage_inputs = EmptyInterface
    /\ stage_result = None /\ vertex_result = None
    /\ NoSizeCall /\ NoBindCall /\ NoTypeCall /\ NoBindingCall

SpecDescriptor == InitDescriptor /\ [][NextStage]_vars

\* the layout entry of the descriptor binding of the global of index i, if it has one
HasEntry(i) ==
    /\ Global(i).binding.set < Len(group_layouts)
    /\ Global(i).binding.binding \in DOMAIN group_layouts[Global(i).binding.set + 1]
EntryOf(i) == group_layouts[Global(i).binding.set + 1][Global(i).binding.binding]
BindingError(i, kind) ==
    Err([kind |-> "Binding", set |-> Global(i).binding.set,
         binding |-> Global(i).binding.binding, error |-> [kind |-> kind]])
\* check_stage reaches the global of index i, which is used and bound to a descriptor
ReachesDescriptor(i) ==
    Reaches(i) /\ IsUsed(i) /\ Global(i).binding.tag = "Descriptor"

\* C3: when check_stage reaches a used global whose descriptor has a layout entry
\* that is not visible to the stage, it fails with Binding{set, binding, Invisible},
\* whatever the types of the global and of the entry, their sizes and the usage.
C3_InvisibleBeforeTypeCheck ==
    pc = "checked" =>
        \A i \in Globals :
            (ReachesDescriptor(i) /\ HasEntry(i) /\ StageBit \notin EntryOf(i).visibility)
                => stage_result = BindingError(i, "Invisible")

\* a sampler bound to a uniform buffer entry the stage does not see: Invisible, not
\* WrongType
C3_Witness ==
    /\ pc = "checked"
    /\ \E i \in Globals :
          /\ ReachesDescriptor(i) /\ HasEntry(i)
          /\ StageBit \notin EntryOf(i).visibility
          /\ module.types[Global(i).ty].tag = "Sampler"
          /\ EntryOf(i).ty.tag = "UniformBuffer"
          /\ stage_result = BindingError(i, "Invisible")

\* C4: when check_stage reaches a used global whose descriptor set is no index of
\* group_layouts, or whose binding has no entry in the map of that set, it fails with
\* Binding{set, binding, Missing}.
C4_MissingBinding ==
    pc = "checked" =>
        \A i \in Globals :
            (ReachesDescriptor(i) /\ ~HasEntry(i))
                => stage_result = BindingError(i, "Missing")

\* set 1 of a layout of one bind group that has an entry at binding 0
C4_Witness ==
    /\ pc = "checked"
    /\ \E i \in Globals :
          /\ ReachesDescriptor(i)
          /\ Global(i).binding = Descriptor(1, 0)
          /\ Len(group_layouts) = 1 /\ 0 \in DOMAIN group_layouts[1]
          /\ stage_result = BindingError(i, "Missing")

(***************************************************************************)
(* SpecVarying: modules whose globals are mostly bound to locations,       *)
(* against the interface of an earlier stage.                              *)
(***************************************************************************)
VaryingCases ==
    {GlobalCase(GlobalVariable(ty, Location(l)), u) :
        ty \in {12, 13, 14}, l \in {0, 1}, u \in GlobalUse}
        \cup {GlobalCase(GlobalVariable(2, Descriptor(0, 0)), LOAD),
              GlobalCase(GlobalVariable(3, None), LOAD),
              GlobalCase(GlobalVariable(3, BuiltIn), GlobalUseAll)}
\* what an earlier stage may provide at locations 0 and 1
Interfaces ==
    {EmptyInterface}
        \cup {[l \in {0} |-> t] : t \in {Vector(4, "Float", 32), Vector(4, "Sint", 32),
                                        Vector(2, "Float", 32)}}
        \cup {[l \in {1} |-> Vector(4, "Float", 32)]}
        \cup {[l \in {0, 1} |-> IF l = 0 THEN t ELSE Vector(4, "Float", 32)] :
                 t \in {Vector(4, "Float", 32), Vector(4, "Sint", 32),
                        Vector(2, "Float", 32)}}
VaryingLayouts ==
    {<<>>, <<[b \in {0} |-> BindGroupLayoutEntry(AllStages, UniformBuffer(FALSE, 0))]>>}

InitVarying ==
    /\ pc = "init"
    /\ \E cases \in SeqsUpTo(VaryingCases, MaxGlobals) :
          module = CaseModule(cases, EveryStage)
    /\ group_layouts \in VaryingLayouts
    /\ entry_point_name = "main"
    /\ inputs \in Interfaces
    /\ stage = "" /\ stage_inputs = EmptyInterface
    /\ stage_result = None /\ vertex_result = None
    /\ NoSizeCall /\ NoBindCall /\ NoTypeCall /\ NoBindingCall

SpecVarying == InitVarying /\ [][NextStage]_vars

\* the global of index i is used, bound to a location and not written
ReadsLocation(i) ==
    IsUsed(i) /\ Global(i).binding.tag = "Location" /\ "STORE" \notin Usage(i)
\* the declared type of the global of index i, one pointer unwrapped
DeclaredType(i) ==
    IF module.types[Global(i).ty].tag = "Pointer"
    THEN module.types[module.types[Global(i).ty].base]
    ELSE module.types[Global(i).ty]
InputError(i, kind) ==
    Err([kind |-> "Input", location |-> Global(i).binding.location,
         error |-> [kind |-> kind]])
\* the interface ins provides, at the location of the global of index i, a type the
\* declared type is a sub-type of
Provides(ins, i) ==
    /\ Global(i).binding.location \in DOMAIN ins
    /\ is_sub_type(DeclaredType(i), ins[Global(i).binding.location])

\* C6: when check_stage reaches a used global bound to a location and not written:
\* it fails with Input{location, Missing} if the input interface has no such
\* location, with Input{location, WrongType} if is_sub_type(declared type, provided
\* type) is false; and a stage whose used globals are all such globals, each provided
\* for, or are written or unbound, succeeds.
C6_InputErrors ==
    pc = "checked" =>
        /\ \A i \in Globals :
              (Reaches(i) /\ ReadsLocation(i) /\ ~Provides(stage_inputs, i)) =>
                  stage_result =
                      IF Global(i).binding.location \notin DOMAIN stage_inputs
                      THEN InputError(i, "Missing")
                      ELSE InputError(i, "WrongType")
        /\ (/\ HasRequested
            /\ \A i \in Globals :
                  \/ ~IsUsed(i)
                  \/ Global(i).binding.tag \in {"None", "BuiltIn"}
                  \/ Global(i).binding.tag = "Location" /\ "STORE" \in Usage(i)
                  \/ ReadsLocation(i) /\ Provides(stage_inputs, i))
           => stage_result.tag = "Ok"

\* the fragment stage reads a float vector at location 0 where the earlier stage wrote
\* a vector of signed integers
C6_Witness ==
    /\ pc = "checked" /\ stage = "Fragment"
    /\ \E i \in Globals :
          /\ Reaches(i) /\ ReadsLocation(i)
          /\ Global(i).binding.location = 0
          /\ DeclaredType(i) = Vector(2, "Float", 32)
          /\ stage_inputs[0] = Vector(4, "Sint", 32)
          /\ stage_result = InputError(i, "WrongType")

(***************************************************************************)
(* SpecEntry: modules of two functions and up to MaxEntryPoints entry      *)
(* points.  Function 1 uses only the first global, function 2 only the     *)
(* second, so the result tells which function was validated.               *)
(***************************************************************************)
\* the most entry points of a module
MaxEntryPoints == 2
EntryPoints ==
    {EntryPoint(name, model, f) :
        name \in {"main", "other"}, model \in {"Vertex", "Fragment"}, f \in {1, 2}}
EntryGlobals == <<GlobalVariable(12, Location(0)), GlobalVariable(13, Location(1))>>

InitEntry ==
    /\ pc = "init"
    /\ \E eps \in SeqsUpTo(EntryPoints, MaxEntryPoints), u1 \in {LOAD, STORE},
          u2 \in {LOAD, STORE} :
          module = StageModule(EntryGlobals, << <<u1, {}>>, <<{}, u2>> >>, eps)
    /\ group_layouts = <<>>
    /\ entry_point_name = "main"
    /\ inputs \in {EmptyInterface, [l \in {0} |-> Vector(4, "Float", 32)]}
    /\ stage = "" /\ stage_inputs = EmptyInterface
    /\ stage_result = None /\ vertex_result = None
    /\ NoSizeCall /\ NoBindCall /\ NoTypeCall /\ NoBindingCall

SpecEntry == InitEntry /\ [][NextStage]_vars

\* what validating the function f of the module returns
Validated(f) ==
    check_globals_from(module, group_layouts, StageBit, stage_inputs,
                       module.functions[f].global_usage, 1, EmptyInterface)

\* C5: check_stage validates the function of an entry point whose name and execution
\* model are both the requested ones; without such an entry point, also when one of
\* that name exists for another stage, it returns MissingEntryPoint(requested model).
C5_EntryPointByNameAndModel ==
    pc = "checked" =>
        IF HasRequested
        THEN stage_result = Validated(module.entry_points[FirstRequested].function)
        ELSE stage_result = Err([kind |-> "MissingEntryPoint", model |-> stage])

\* two entry points "main": the fragment one comes first, the vertex one is requested
C5_Witness ==
    /\ pc = "checked" /\ stage = "Vertex"
    /\ module.entry_points = <<EntryPoint("main", "Fragment", 2), EntryPoint("main", "Vertex", 1)>>
    /\ module.functions[1].global_usage = <<STORE, {}>>
    /\ stage_result = [tag |-> "Ok", outputs |-> [l \in {0} |-> Vector(2, "Float", 32)]]

(***************************************************************************)
(* SpecChain: pipeline creation validates the vertex stage and, if that    *)
(* succeeds, the fragment stage on the interface the vertex stage          *)
(* returned.  Function 1 is the vertex entry point, function 2 the         *)
(* fragment one; a vertex stage that reads no vertex buffer.               *)
(***************************************************************************)
ChainStages == <<EntryPoint("main", "Vertex", 1), EntryPoint("main", "Fragment", 2)>>
\* a global with its usage by the vertex and by the fragment function
ChainCase(v, uv, uf) == [var |-> v, vertex |-> uv, fragment |-> uf]
ChainCases ==
    {ChainCase(v, uv, uf) :
        v \in {GlobalVariable(13, Location(0)), GlobalVariable(14, Location(0)),
               GlobalVariable(12, Location(0)), GlobalVariable(12, Location(1))},
        uv \in {{}, STORE, GlobalUseAll}, uf \in GlobalUse}
        \cup {ChainCase(GlobalVariable(2, Descriptor(0, 0)), uv, uf) :
                 uv \in {{}, LOAD}, uf \in {{}, LOAD}}

InitChain ==
    /\ pc = "init"
    /\ \E cases \in SeqsUpTo(ChainCases, MaxGlobals) :
          module = StageModule([i \in 1..Len(cases) |-> cases[i].var],
                               <<[i \in 1..Len(cases) |-> cases[i].vertex],
                                 [i \in 1..Len(cases) |-> cases[i].fragment]>>,
                               ChainStages)
    /\ group_layouts \in VaryingLayouts
    /\ entry_point_name = "main"
    /\ inputs = EmptyInterface
    /\ stage = "" /\ stage_inputs = EmptyInterface
    /\ stage_result = None /\ vertex_result = None
    /\ NoSizeCall /\ NoBindCall /\ NoTypeCall /\ NoBindingCall

CheckVertexStage ==
    /\ pc = "init"
    /\ stage' = "Vertex"
    /\ stage_inputs' = inputs
    /\ stage_result' = check_stage(module, group_layouts, entry_point_name, "Vertex", inputs)
    /\ vertex_result' = stage_result'
    /\ pc' = "vertex"
    /\ UNCHANGED <<module, group_layouts, entry_point_name, inputs,
                   bindVars, typeVars, sizeVars, bindingVars>>

CheckFragmentStage ==
    /\ pc = "vertex"
    /\ vertex_result.tag = "Ok"
    /\ stage' = "Fragment"
    /\ stage_inputs' = vertex_result.outputs
    /\ stage_result' = check_stage(module, group_layouts, entry_point_name, "Fragment",
                                   vertex_result.outputs)
    /\ pc' = "fragment"
    /\ UNCHANGED <<module, group_layouts, entry_point_name, inputs, vertex_result,
                   bindVars, typeVars, sizeVars, bindingVars>>

NextChain == CheckVertexStage \/ CheckFragmentStage

SpecChain == InitChain /\ [][NextChain]_vars

\* the globals through which the vertex function writes the location l
VertexWriters(l) ==
    {j \in Globals : /\ Global(j).binding = Location(l)
                     /\ "STORE" \in module.functions[1].global_usage[j]}
Greatest(S) == CHOOSE i \in S : \A j \in S : j <= i
\* the vertex stage wrote the location of the global of index i, with a type the
\* declared type of that global is a sub-type of
WrittenFor(i) ==
    LET writers == VertexWriters(Global(i).binding.location)
    IN  /\ writers # {}
        /\ is_sub_type(DeclaredType(i), DeclaredType(Greatest(writers)))
\* the globals the fragment function reads at a location the vertex stage did not so write
Unprovided == {i \in Globals : ReadsLocation(i) /\ ~WrittenFor(i)}
IsInputError(result) == result.tag = "Err" /\ result.error.kind = "Input"

\* C7 as claimed: the fragment check raises no Input error exactly when every
\* location the fragment reads was written by the vertex stage with a type of which
\* the fragment's declared type is a sub-type.
C7_NoInputErrorIffProvided ==
    pc = "fragment" => (~IsInputError(stage_result) <=> Unprovided = {})

\* C7 as amended: the fragment check raises no Input error if every location it
\* reads was so written; if some location was not, the check fails, with an Input
\* error unless an earlier used descriptor-bound global fails with a Binding error;
\* and vertex outputs the fragment does not read never matter.
C7_ChainedInputs ==
    pc = "fragment" =>
        /\ Unprovided = {} => ~IsInputError(stage_result)
        /\ Unprovided # {} =>
              /\ stage_result.tag = "Err"
              /\ \/ stage_result = InputError(Least(Unprovided),
                        IF VertexWriters(Global(Least(Unprovided)).binding.location) = {}
                        THEN "Missing" ELSE "WrongType")
                 \/ /\ stage_result.error.kind = "Binding"
                    /\ \E j \in 1..(Least(Unprovided) - 1) :
                          /\ IsUsed(j) /\ Global(j).binding.tag = "Descriptor"
                          /\ stage_result.error.set = Global(j).binding.set
                          /\ stage_result.error.binding = Global(j).binding.binding
        /\ (\A j \in Globals : ~(IsUsed(j) /\ Global(j).binding.tag = "Descriptor"))
              => (stage_result.tag = "Ok" <=> Unprovided = {})

\* the vertex stage writes a 4-component float vector at location 0, the fragment
\* stage reads a 2-component float vector there
C7_Witness ==
    /\ pc = "fragment"
    /\ vertex_result.outputs = [l \in {0} |-> Vector(4, "Float", 32)]
    /\ \E i \in Globals :
          /\ ReadsLocation(i) /\ Global(i).binding.location = 0
          /\ DeclaredType(i) = Vector(2, "Float", 32)
    /\ stage_result.tag = "Ok"

(***************************************************************************)
(* SpecResource: one global bound to the descriptor (set 0, binding 1),    *)
(* whose type is a buffer struct, a sampler, an image or a vector, against *)
(* a layout whose only entry is at that binding.  check_binding is called  *)
(* on the global and the entry directly, or check_stage is called on the   *)
(* module and the layout.                                                  *)
(***************************************************************************)
ImageDimOf == <<"Dim1D", "Dim2D", "Dim3D", "DimCube", "DimRect">>
ImageFlagsOf == <<{}, {"SAMPLED"}, {"ARRAYED"}, {"ARRAYED", "SAMPLED"},
                  {"MULTISAMPLED"}, {"MULTISAMPLED", "SAMPLED"},
                  {"ARRAYED", "MULTISAMPLED"}, {"ARRAYED", "MULTISAMPLED", "SAMPLED"}>>
\* the images of a float scalar, of every dimension and every set of flags
ResourceImages ==
    [k \in 1..(Len(ImageDimOf) * Len(ImageFlagsOf)) |->
        Image(15, ImageDimOf[((k - 1) \div Len(ImageFlagsOf)) + 1],
              ImageFlagsOf[((k - 1) % Len(ImageFlagsOf)) + 1])]
\* the arena of the stage modules, then the images, an image of a signed integer
\* vector, an image of a struct, and a pointer to the comparison sampler
ResourceArena ==
    Arena(StageMembers) \o ResourceImages
        \o <<Image(14, "Dim2D", {"SAMPLED"}), Image(1, "Dim2D", {"SAMPLED"}),
             Pointer(11, "Uniform")>>
\* the handles of the types of the global: every type of the arena but the members
\* of the struct and the bases of the images
ResourceTypes ==
    {h \in 1..Len(ResourceArena) :
        ResourceArena[h].tag \in {"Struct", "Pointer", "Sampler", "Image"} /\ h # 9 /\ h # 13}
        \cup {12}
ViewDimensions == {"D1", "D2", "D2Array", "Cube", "CubeArray", "D3"}
ResourceEntryTypes ==
    {UniformBuffer(FALSE, 0), UniformBuffer(FALSE, 48)}
        \cup {StorageBuffer(FALSE, 0, r) : r \in BOOLEAN}
        \cup {SamplerBinding(c) : c \in BOOLEAN}
        \cup {SampledTexture(d, c, ms) : d \in ViewDimensions, c \in {"Float", "Sint", "Uint"},
                                         ms \in BOOLEAN}
        \cup {StorageTexture(d, r) : d \in ViewDimensions, r \in BOOLEAN}
ResourceVisibilities == {AllStages, {"VERTEX"}}

InitResource ==
    /\ pc = "init"
    /\ var \in {GlobalVariable(ty, Descriptor(0, 1)) : ty \in ResourceTypes}
    /\ entry \in {BindGroupLayoutEntry(vis, ty) : vis \in ResourceVisibilities,
                                                  ty \in ResourceEntryTypes}
    /\ usage \in GlobalUse
    /\ binding_result = None
    /\ module = [types |-> ResourceArena,
                 global_variables |-> <<var>>,
                 functions |-> <<[global_usage |-> <<usage>>]>>,
                 entry_points |-> EveryStage]
    /\ group_layouts = <<[b \in {1} |-> entry]>>
    /\ entry_point_name = "main"
    /\ inputs = EmptyInterface
    /\ stage = "" /\ stage_inputs = EmptyInterface
    /\ stage_result = None /\ vertex_result = None
    /\ NoSizeCall /\ NoBindCall /\ NoTypeCall

NextResource == CheckBinding \/ CheckStage

SpecResource == InitResource /\ [][NextResource]_vars

(***************************************************************************)
(* The vocabulary of the claims about check_binding of a resource.         *)
(***************************************************************************)
\* check_binding was called on the global and the entry
DirectCall == pc = "checked" /\ binding_result # None
\* check_stage was called on the module and the layout
StageCall == pc = "checked" /\ stage_result # None
\* the type of the global, one pointer unwrapped
BoundType == unwrap_pointer(module.types, var.ty)
\* the error check_stage reports for the global
ResourceError(error) ==
    Err([kind |-> "Binding", set |-> var.binding.set, binding |-> var.binding.binding,
         error |-> error])
\* check_stage hands the global to check_binding
Checked == StageCall /\ usage # {} /\ StageBit \in entry.visibility

\* C11: for a sampler-typed global, check_binding fails with WrongType against every
\* entry that is no Sampler entry, fails with WrongSamplerComparison against a
\* Sampler entry whose comparison flag differs from the shader's, and takes a Sampler
\* entry of the same flag as the right kind of entry; through check_stage, a used
\* sampler whose visible Sampler entry has the other comparison flag fails with
\* Binding{set, binding, WrongSamplerComparison}.
C11_SamplerEntryAndComparison ==
    /\ (DirectCall /\ BoundType.tag = "Sampler") =>
          /\ entry.ty.tag # "Sampler" => binding_result = BindingErr("WrongType")
          /\ (entry.ty.tag = "Sampler" /\ entry.ty.comparison # BoundType.comparison)
                => binding_result = BindingErr("WrongSamplerComparison")
          /\ (entry.ty.tag = "Sampler" /\ entry.ty.comparison = BoundType.comparison)
                => binding_result \notin {BindingErr("WrongType"),
                                          BindingErr("WrongSamplerComparison")}
    /\ (Checked /\ BoundType.tag = "Sampler" /\ entry.ty.tag = "Sampler"
            /\ entry.ty.comparison # BoundType.comparison)
          => stage_result = ResourceError([kind |-> "WrongSamplerComparison"])

\* a comparison sampler the fragment stage reads at (set 0, binding 1), against a
\* visible non-comparison sampler entry
C11_Witness ==
    /\ StageCall /\ stage = "Fragment"
    /\ module.types[var.ty] = Sampler(TRUE) /\ var.binding = Descriptor(0, 1)
    /\ usage = LOAD
    /\ entry = BindGroupLayoutEntry(AllStages, SamplerBinding(FALSE))
    /\ stage_result = Err([kind |-> "Binding", set |-> 0, binding |-> 1,
                           error |-> [kind |-> "WrongSamplerComparison"]])

\* C12: for a sampler-typed global against a Sampler entry of the same comparison
\* flag, check_binding returns Ok whatever the usage is (none, read, write or both),
\* and check_stage passes such a sampler when the stage uses it and sees its entry.
C12_SamplerUsageUnconstrained ==
    LET Matches == /\ BoundType.tag = "Sampler" /\ entry.ty.tag = "Sampler"
                   /\ entry.ty.comparison = BoundType.comparison
    IN  /\ (DirectCall /\ Matches) => binding_result = Ok
        /\ (Checked /\ Matches) => stage_result.tag = "Ok"

\* the usage mask of a buffer or texture entry: read-only, but read and write for a
\* storage buffer that is not read-only and write-only for a storage texture that is
\* not read-only
AllowedMask(ty) ==
    CASE ty.tag = "UniformBuffer" -> LOAD
      [] ty.tag = "StorageBuffer" -> IF ty.readonly THEN LOAD ELSE GlobalUseAll
      [] ty.tag = "SampledTexture" -> LOAD
      [] ty.tag = "StorageTexture" -> IF ty.readonly THEN LOAD ELSE STORE
IsResourceEntry ==
    entry.ty.tag \in {"UniformBuffer", "StorageBuffer", "SampledTexture", "StorageTexture"}
\* every check of check_binding before the usage test passes: the call succeeds for
\* the empty usage
EarlierChecksPass == check_binding(module, var, entry, {}) = Ok

\* C13: against a buffer or texture entry, check_binding returns Ok only for a usage
\* within the allowed mask of the entry, and when every earlier check passes and the
\* usage is not within the mask it fails with WrongUsage carrying the usage.
C13_UsageWithinAllowedMask ==
    (DirectCall /\ IsResourceEntry) =>
        /\ binding_result = Ok => usage \subseteq AllowedMask(entry.ty)
        /\ (EarlierChecksPass /\ ~(usage \subseteq AllowedMask(entry.ty)))
              => binding_result = Err([kind |-> "WrongUsage", usage |-> usage])

\* a storage image read and written, against a storage texture entry that is not
\* read-only
C13_Witness ==
    /\ DirectCall
    /\ BoundType = Image(15, "Dim2D", {})
    /\ entry.ty = StorageTexture("D2", FALSE)
    /\ usage = GlobalUseAll
    /\ binding_result = Err([kind |-> "WrongUsage", usage |-> GlobalUseAll])

\* the pairings of shader dimension, arrayed flag and view dimension of section 4.3
DimensionsPair(dim, arrayed, view) ==
    IF arrayed
    THEN \/ dim = "Dim2D" /\ view = "D2Array"
         \/ dim = "DimCube" /\ view = "CubeArray"
    ELSE \/ dim = "Dim1D" /\ view = "D1"
         \/ dim = "Dim2D" /\ view = "D2"
         \/ dim = "Dim3D" /\ view = "D3"
         \/ dim = "DimCube" /\ view = "Cube"
IsTextureEntry == entry.ty.tag \in {"SampledTexture", "StorageTexture"}
\* the multisample check passes: a multisampled image has a multisampled sampled
\* texture entry
MultisampleCheckPasses ==
    "MULTISAMPLED" \in BoundType.flags
        => (entry.ty.tag = "SampledTexture" /\ entry.ty.multisampled)
IsDimensionError(result) ==
    result.tag = "Err" /\ result.error.kind = "WrongTextureViewDimension"

\* C14: for an image-typed global against a sampled or storage texture entry, the
\* multisample check passed, check_binding fails with
\* WrongTextureViewDimension{dim, is_array} of the shader's dimension and arrayed flag
\* unless they pair with the view dimension of the entry (arrayed 2D with D2Array,
\* arrayed Cube with CubeArray, 1D/2D/3D/Cube that are not arrayed with D1/D2/D3/Cube),
\* and with no such error when they pair.
C14_DimensionPairings ==
    (DirectCall /\ BoundType.tag = "Image" /\ IsTextureEntry /\ MultisampleCheckPasses) =>
        LET arrayed == "ARRAYED" \in BoundType.flags IN
        IF DimensionsPair(BoundType.dim, arrayed, entry.ty.dimension)
        THEN ~IsDimensionError(binding_result)
        ELSE binding_result = WrongTextureViewDimension(BoundType.dim, arrayed)

\* an arrayed 2D image against a D2 view: the error reports is_array = true
C14_Witness ==
    /\ DirectCall
    /\ BoundType = Image(15, "Dim2D", {"ARRAYED", "SAMPLED"})
    /\ entry.ty = SampledTexture("D2", "Float", FALSE)
    /\ binding_result = WrongTextureViewDimension("Dim2D", TRUE)

(***************************************************************************)
(* SpecSize: get_aligned_type_size is called on a type of the arena, with  *)
(* allow_unbound or without.  Handle 1 is a struct of the members drawn,   *)
(* handle 9 a struct among its possible members.                           *)
(***************************************************************************)
InitSize ==
    /\ pc = "init"
    /\ \E ms \in BufferMembers :
          module = [types |-> Arena(ms), global_variables |-> <<>>, functions |-> <<>>,
                    entry_points |-> <<>>]
    /\ size_call \in [handle : 1..Len(Arena(<<>>)), allow_unbound : BOOLEAN]
    /\ size_result = None
    /\ NoBindCall /\ NoTypeCall /\ NoStageCall /\ NoBindingCall

GetAlignedTypeSize ==
    /\ pc = "init"
    /\ size_result' = get_aligned_type_size(module.types, size_call.handle,
                                            size_call.allow_unbound)
    /\ pc' = "measured"
    /\ UNCHANGED <<size_call, bindVars, typeVars, stageVars, bindingVars>>

NextSize == GetAlignedTypeSize

SpecSize == InitSize /\ [][NextSize]_vars

\* the type measured and, for a struct, its last member
MeasuredType == module.types[size_call.handle]
LastMember == MeasuredType.members[Len(MeasuredType.members)]
\* one element of an array: its stride if it has one, else the size of its base
ElementSize(array) ==
    IF IsSome(array.stride) THEN array.stride
    ELSE get_aligned_type_size(module.types, array.base, FALSE)
IsUnboundedArray(t) == t.tag = "Array" /\ t.size.tag = "Dynamic"

\* C15: for a struct, get_aligned_type_size returns the offset of the last member
\* plus the aligned size of that member; measured with an unbounded tail allowed, a
\* last member that is an unbounded array counts as one element, its stride if it has
\* one and else the size of its base.
C15_StructSizeWithUnboundedTail ==
    (pc = "measured" /\ MeasuredType.tag = "Struct" /\ MeasuredType.members # <<>>) =>
        LET last == module.types[LastMember.ty] IN
        IF IsUnboundedArray(last)
        THEN size_call.allow_unbound
                => size_result = LastMember.offset + ElementSize(last)
        ELSE size_result = LastMember.offset
                + get_aligned_type_size(module.types, LastMember.ty,
                                        size_call.allow_unbound)

(***************************************************************************)
(* The output interface of check_stage, under SpecVarying.                 *)
(***************************************************************************)
\* the used globals bound to location l that the function writes
Writers(l) ==
    {i \in Globals : Global(i).binding = Location(l) /\ "STORE" \in Usage(i)}
WrittenLocations ==
    {Global(i).binding.location :
        i \in {j \in Globals : Global(j).binding.tag = "Location" /\ "STORE" \in Usage(j)}}

\* C16: when check_stage succeeds, the interface it returns has exactly the locations
\* that some global with a usage including write is bound to, each with the type, one
\* pointer unwrapped, of the last such global of the table; globals that are only
\* read, bound to a descriptor, unbound or unused add nothing; and a stage none of
\* whose used location-bound globals is read-only fails with no Input error, whatever
\* its written globals also read and whatever the input interface holds.
C16_OutputInterface ==
    pc = "checked" =>
        /\ stage_result.tag = "Ok" =>
              /\ DOMAIN stage_result.outputs = WrittenLocations
              /\ \A l \in WrittenLocations :
                    stage_result.outputs[l] = DeclaredType(Greatest(Writers(l)))
        /\ (\A i \in Globals : ~ReadsLocation(i)) => ~IsInputError(stage_result)

\* two globals written at location 0, the second also read, no input provided: the
\* type of the second, its pointer unwrapped, is the output
C16_Witness ==
    /\ pc = "checked" /\ stage_result.tag = "Ok"
    /\ stage_inputs = EmptyInterface
    /\ Len(module.global_variables) = 2
    /\ Global(1) = GlobalVariable(12, Location(0)) /\ Usage(1) = STORE
    /\ Global(2) = GlobalVariable(13, Location(0)) /\ Usage(2) = GlobalUseAll
    /\ stage_result.outputs = [l \in {0} |-> Vector(4, "Float", 32)]

(***************************************************************************)
(* The order of the checks of check_stage, under SpecDescriptor.           *)
(***************************************************************************)
\* what the body of the loop of check_stage returns for the global of index i
FailureOf(i) ==
    check_global(module, group_layouts, StageBit, stage_inputs, Global(i), Usage(i),
                 EmptyInterface)
\* the globals the function uses whose check fails
UsedFailing == {i \in Globals : IsUsed(i) /\ ~Passes(i)}

\* C17: check_stage, once it has its entry point, examines the globals in table
\* order: it succeeds if every used global passes, whatever layout entries the unused
\* globals have or lack, and else returns the error of the first used global that
\* fails, with no output interface, whatever the globals after it are.
C17_FailFastInTableOrder ==
    (pc = "checked" /\ HasRequested) =>
        IF UsedFailing = {} THEN stage_result.tag = "Ok"
        ELSE /\ stage_result = FailureOf(Least(UsedFailing))
             /\ stage_result.tag = "Err"
             /\ "outputs" \notin DOMAIN stage_result

\* the first global has no bind group 1, the second no input at location 0: the error
\* is that of the first
C17_Witness ==
    /\ pc = "checked"
    /\ Len(module.global_variables) = 2
    /\ Global(1) = GlobalVariable(2, Descriptor(1, 0)) /\ Usage(1) = LOAD
    /\ Global(2) = GlobalVariable(13, Location(0)) /\ Usage(2) = LOAD
    /\ Len(group_layouts) = 1
    /\ UsedFailing = {1, 2}
    /\ stage_result = BindingError(1, "Missing")

====
